---------------------------- MODULE Spec2Model ----------------------------
(***************************************************************************)
(* weather-cli: a model of one process run after another (main.rs main),   *)
(* the single-slot disk cache (caching.rs), the two weather providers and  *)
(* the condition / wind-direction classifiers (providers.rs).              *)
(*                                                                         *)
(* Conventions.  Time is counted in minutes.  Decimal numbers that the     *)
(* vendors report (f32 / f64) are carried as integer tenths.  A Rust       *)
(* Option is a record [some |-> FALSE] or [some |-> TRUE, val |-> v].  A   *)
(* file is [kind |-> "absent"], [kind |-> "bytes"] (not valid UTF-8, so    *)
(* fs::read_to_string fails) or [kind |-> "text", doc |-> d] where d is    *)
(* the TOML document as a function from dotted keys to values.             *)
(***************************************************************************)
EXTENDS Integers, Sequences, FiniteSets, TLC

VARIABLES
    clock,        \* chrono::Local::now(), in minutes
    configFile,   \* ~/.config/weather-cli.toml
    cacheFile,    \* <cache_dir>/weather-cli.toml
    pc,           \* position of the running process in main
    config,       \* main's `config`
    loadResult,   \* what caching::load returned to main
    cache_hit,    \* main's `cache_hit` flag (set on the miss branch)
    weather,      \* main's `weather`
    fetchOutcome, \* how provider.fetch_weather ended
    requests,     \* outbound HTTP requests of this run, in order
    output,       \* lines printed by this run
    panicAt,      \* where the process panicked, "" if it did not
    lastSave,     \* history: the latest caching::save (what, when, under which config)
    probe         \* last application of a pure classifier (SpecPure only)

vars == <<clock, configFile, cacheFile, pc, config, loadResult, cache_hit,
          weather, fetchOutcome, requests, output, panicAt, lastSave, probe>>

runVars == <<pc, config, loadResult, cache_hit, weather, fetchOutcome,
             requests, output, panicAt>>

(***************************************************************************)
(* Bounds of the model.                                                    *)
(***************************************************************************)
TickMinutes == 30
MaxTicks == 4
MaxCode == 900

MaxTime == MaxTicks * TickMinutes
Times == {t * TickMinutes : t \in 0..MaxTicks}
Codes == (0 - MaxCode)..MaxCode

(***************************************************************************)
(* Option                                                                  *)
(***************************************************************************)
None == [some |-> FALSE]
Some(v) == [some |-> TRUE, val |-> v]

(***************************************************************************)
(* WeatherCondition: the variants by discriminant, their serde names       *)
(* (the derive uses the variant identifiers) and their Display text.       *)
(***************************************************************************)
Clear == 0
PartlyCloudy == 1
Overcast == 2
Foggy == 3
Drizzle == 4
Rainy == 5
Snowy == 6
SnowGrains == 7
RainShowers == 8
SnowShowers == 9
Thunderstorms == 10
Unknown == 11
WeatherCondition == Clear..Unknown

VariantName ==
    [c \in WeatherCondition |->
        CASE c = Clear -> "Clear"
          [] c = PartlyCloudy -> "PartlyCloudy"
          [] c = Overcast -> "Overcast"
          [] c = Foggy -> "Foggy"
          [] c = Drizzle -> "Drizzle"
          [] c = Rainy -> "Rainy"
          [] c = Snowy -> "Snowy"
          [] c = SnowGrains -> "SnowGrains"
          [] c = RainShowers -> "RainShowers"
          [] c = SnowShowers -> "SnowShowers"
          [] c = Thunderstorms -> "Thunderstorms"
          [] OTHER -> "Unknown"]

DisplayCondition ==
    [c \in WeatherCondition |->
        CASE c = Clear -> "Clear"
          [] c = PartlyCloudy -> "Partly Cloudy"
          [] c = Overcast -> "Overcast"
          [] c = Foggy -> "Foggy"
          [] c = Drizzle -> "Drizzle"
          [] c = Rainy -> "Rainy"
          [] c = Snowy -> "Snowy"
          [] c = SnowGrains -> "Snow Grains"
          [] c = RainShowers -> "Showers"
          [] c = SnowShowers -> "Showers"
          [] c = Thunderstorms -> "Thunderstorm"
          [] OTHER -> "Unknown"]

(***************************************************************************)
(* providers.rs: the classifiers.  The arms are tried in source order.     *)
(***************************************************************************)
OpenMeteoConditionNoFog(code) ==
    CASE code \in {0, 1} -> Clear
      [] code = 2 -> PartlyCloudy
      [] code = 3 -> Overcast
      [] code \in {51, 53, 55, 56, 57} -> Drizzle
      [] code \in {61, 63, 65, 66, 67} -> Rainy
      [] code \in {71, 73, 75} -> Snowy
      [] code = 77 -> SnowGrains
      [] code \in 80..82 -> RainShowers
      [] code \in {85, 86} -> SnowShowers
      [] code \in {95, 96, 99} -> Thunderstorms
      [] OTHER -> Unknown

OpenMeteoCondition(code) ==
    CASE code \in {0, 1} -> Clear
      [] code = 2 -> PartlyCloudy
      [] code = 3 -> Overcast
      [] code \in {45, 48} -> Foggy
      [] code \in {51, 53, 55, 56, 57} -> Drizzle
      [] code \in {61, 63, 65, 66, 67} -> Rainy
      [] code \in {71, 73, 75} -> Snowy
      [] code = 77 -> SnowGrains
      [] code \in 80..82 -> RainShowers
      [] code \in {85, 86} -> SnowShowers
      [] code \in {95, 96, 99} -> Thunderstorms
      [] OTHER -> Unknown

OpenWeatherMapId(id) ==
    CASE id \in 200..232 -> Thunderstorms
      [] id \in 300..321 -> Drizzle
      [] id \in 500..504 \/ id = 511 -> Rainy
      [] id \in 520..531 -> RainShowers
      [] id \in 600..602 \/ id \in 611..616 -> Snowy
      [] id \in 620..622 -> SnowShowers
      [] id = 741 -> Foggy
      [] id = 800 -> Clear
      [] id \in 801..802 -> PartlyCloudy
      [] id \in 803..804 -> Overcast
      [] OTHER -> Unknown

\* res.weather.first(): the first descriptor decides, an empty list is Unknown.
OpenWeatherMapCondition(ids) ==
    IF Len(ids) = 0 THEN Unknown ELSE OpenWeatherMapId(ids[1])

\* A version with the first arm's upper boundary off by one.
degree_to_direction_off_by_one(degree) ==
    CASE degree \in 0..21 -> "N"
      [] degree \in 22..67 -> "NE"
      [] degree \in 68..112 -> "E"
      [] degree \in 113..157 -> "SE"
      [] degree \in 158..202 -> "S"
      [] degree \in 203..247 -> "SW"
      [] degree \in 248..292 -> "W"
      [] degree \in 293..337 -> "NW"
      [] OTHER -> "N"

degree_to_direction(degree) ==
    CASE degree \in 0..22 -> "N"
      [] degree \in 23..67 -> "NE"
      [] degree \in 68..112 -> "E"
      [] degree \in 113..157 -> "SE"
      [] degree \in 158..202 -> "S"
      [] degree \in 203..247 -> "SW"
      [] degree \in 248..292 -> "W"
      [] degree \in 293..337 -> "NW"
      [] OTHER -> "N"

\* i16, the type of `degree`.
I16Min == -32768
I16Max == 32767


(***************************************************************************)
(* Number formatting.  A decimal is carried in tenths.                     *)
(***************************************************************************)
Abs(n) == IF n < 0 THEN 0 - n ELSE n

\* `x as i32`: the fraction is dropped, towards zero.
AsI32(tenths) ==
    IF tenths < 0 THEN 0 - (Abs(tenths) \div 10) ELSE tenths \div 10

\* format!("{}", x) of a float: no fraction is printed when there is none.
FmtFloat(tenths) ==
    (IF tenths < 0 THEN "-" ELSE "")
        \o ToString(Abs(tenths) \div 10)
        \o (IF Abs(tenths) % 10 = 0 THEN "" ELSE "." \o ToString(Abs(tenths) % 10))

\* format!("{:.1}", x): always one decimal.
FmtFloat1(tenths) ==
    (IF tenths < 0 THEN "-" ELSE "")
        \o ToString(Abs(tenths) \div 10) \o "." \o ToString(Abs(tenths) % 10)

(***************************************************************************)
(* main.rs: configuration.                                                 *)
(***************************************************************************)
ConfigWeatherProvider == {"open-meteo", "open-weather-map"}
ConfigUnits == {"metric", "imperial"}

City(city, country) == [kind |-> "City", city |-> city, country |-> country]
Coordinates(lat, lon) == [kind |-> "Coordinates", lat |-> lat, lon |-> lon]

\* ConfigUnits::temperature, ::speed and ::to_string
UnitsTemperature(units) == IF units = "metric" THEN "celsius" ELSE "fahrenheit"
UnitsSpeed(units) == IF units = "metric" THEN "kmh" ELSE "mph"
UnitsToString(units) == IF units = "metric" THEN "metric" ELSE "imperial"

\* Display for ConfigWeatherProvider
ProviderDisplay(provider) ==
    "https://" \o (IF provider = "open-meteo" THEN "open-meteo.com"
                                              ELSE "openweathermap.org")

MinutesPerHour == 60

\* Config::default(): caching_duration is Duration::hours(1).
DefaultConfig ==
    [provider |-> "open-meteo",
     api_key |-> None,
     location |-> None,
     units |-> "metric",
     time_format |-> "24h",
     caching_duration |-> 1 * MinutesPerHour]

\* parse_duration on the text <<digits, suffix>>: "h" is looked for first,
\* then "min"; anything else is no duration.
parse_duration(text) ==
    IF text[2] = "h" THEN Some(text[1] * MinutesPerHour)
    ELSE IF text[2] = "min" THEN Some(text[1])
    ELSE None

\* toml::from_str::<Config>: every enum tag must name a variant and the
\* duration must parse; otherwise the whole document is rejected.
ParseConfig(doc) ==
    IF /\ {"provider", "api_key", "location", "units", "time_format",
           "caching_duration"} \subseteq DOMAIN doc
       /\ doc.provider \in ConfigWeatherProvider
       /\ doc.units \in ConfigUnits
       /\ doc.time_format \in {"24h", "12h"}
       /\ parse_duration(doc.caching_duration).some
    THEN Some([provider |-> doc.provider,
               api_key |-> doc.api_key,
               location |-> doc.location,
               units |-> doc.units,
               time_format |-> doc.time_format,
               caching_duration |-> parse_duration(doc.caching_duration).val])
    ELSE None

(***************************************************************************)
(* The files the user may put at the config path.                          *)
(***************************************************************************)
Absent == [kind |-> "absent"]
Bytes == [kind |-> "bytes"]
Text(doc) == [kind |-> "text", doc |-> doc]

ConfigLocations ==
    {None, Some(City("Berlin", "DE")), Some(Coordinates(525, 134))}

ValidConfigDocs ==
    [provider : ConfigWeatherProvider,
     api_key : {None, Some("key")},
     location : ConfigLocations,
     units : ConfigUnits,
     time_format : {"24h"},
     caching_duration : {<<30, "min">>, <<1, "h">>}]

\* Misconfigured: a provider tag that names no variant; a duration with an
\* unsupported unit.
BadConfigDocs ==
    {[provider |-> "accuweather", api_key |-> None, location |-> None,
      units |-> "metric", time_format |-> "24h", caching_duration |-> <<1, "h">>],
     [provider |-> "open-weather-map", api_key |-> Some("key"), location |-> None,
      units |-> "imperial", time_format |-> "24h", caching_duration |-> <<1, "d">>]}

ConfigFiles ==
    {Absent, Bytes} \cup {Text(d) : d \in ValidConfigDocs \cup BadConfigDocs}

(***************************************************************************)
(* caching.rs: CacheData and its TOML text.                                *)
(***************************************************************************)
\* The timestamp's text.  chrono writes the instant in full (RFC 3339); here
\* the instant is a minute count, written in decimal.
FormatTime(t) == "T" \o ToString(t)

ParseTime(s) ==
    IF \E t \in Times : FormatTime(t) = s
    THEN Some(CHOOSE t \in Times : FormatTime(t) = s)
    ELSE None

ParseCondition(s) ==
    IF \E c \in WeatherCondition : VariantName[c] = s
    THEN Some(CHOOSE c \in WeatherCondition : VariantName[c] = s)
    ELSE None

CacheKeys ==
    {"timestamp", "data.temperature", "data.feels_like", "data.wind_speed",
     "data.wind_direction", "data.condition"}

\* toml::to_string(&cache_data)
Serialize(cache_data) ==
    [k \in CacheKeys |->
        CASE k = "timestamp" -> FormatTime(cache_data.timestamp)
          [] k = "data.temperature" -> cache_data.data.temperature
          [] k = "data.feels_like" -> cache_data.data.feels_like
          [] k = "data.wind_speed" -> cache_data.data.wind_speed
          [] k = "data.wind_direction" -> cache_data.data.wind_direction
          [] OTHER -> VariantName[cache_data.data.condition]]

\* toml::from_str::<CacheData>(&content).ok()
Deserialize(doc) ==
    IF /\ CacheKeys \subseteq DOMAIN doc
       /\ ParseTime(doc["timestamp"]).some
       /\ ParseCondition(doc["data.condition"]).some
    THEN Some([timestamp |-> ParseTime(doc["timestamp"]).val,
               data |-> [temperature |-> doc["data.temperature"],
                         feels_like |-> doc["data.feels_like"],
                         wind_speed |-> doc["data.wind_speed"],
                         wind_direction |-> doc["data.wind_direction"],
                         condition |-> ParseCondition(doc["data.condition"]).val]])
    ELSE None

\* Corrupt cache texts: not a CacheData table at all, and a snapshot cut off
\* after its first line.
JunkDoc == [k \in {"junk"} |-> "junk"]
TruncatedDoc == [k \in {"timestamp"} |-> FormatTime(0)]
CorruptCacheFiles == {Bytes, Text(JunkDoc), Text(TruncatedDoc)}

\* caching::load with the expiry test inverted at the boundary (<= for <).
load_inclusive(file, cfg, now) ==
    IF file.kind = "absent" THEN None
    ELSE IF file.kind = "bytes" THEN None
    ELSE LET data == Deserialize(file.doc) IN
         IF ~data.some THEN None
         ELSE IF now - data.val.timestamp <= cfg.caching_duration
              THEN Some(data.val.data)
              ELSE None

\* caching::load made to refuse the snapshot while no location is configured.
load_needs_location(file, cfg, now) ==
    IF file.kind = "absent" THEN None
    ELSE IF file.kind = "bytes" THEN None
    ELSE LET data == Deserialize(file.doc) IN
         IF ~data.some THEN None
         ELSE IF cfg.location.some /\ now - data.val.timestamp < cfg.caching_duration
              THEN Some(data.val.data)
              ELSE None

\* caching::load(&config), called at time `now`.
load(file, cfg, now) ==
    IF file.kind = "absent" THEN None
    ELSE IF file.kind = "bytes" THEN None
    ELSE LET data == Deserialize(file.doc) IN
         IF ~data.some THEN None
         ELSE IF now - data.val.timestamp < cfg.caching_duration
              THEN Some(data.val.data)
              ELSE None

\* caching::save(data), called at time `now`: the file's new contents.
save(data, now) ==
    Text(Serialize([timestamp |-> now, data |-> data]))

(***************************************************************************)
(* The network.  A reply is what blocking::get(url)?.json()? yields: an    *)
(* error (transport or decode) or the decoded body.  The vendors answer in *)
(* the units the request asked for.                                        *)
(***************************************************************************)
ReplyError == [kind |-> "error"]
ReplyOk(body) == [kind |-> "ok", body |-> body]

\* https://ipv6.am.i.mullvad.net/json (MullvadResponse)
GeoIpReplies == {ReplyError, ReplyOk([latitude |-> 488, longitude |-> 23])}

\* geocoding-api.open-meteo.com (Root.results): no match, or one.
GeocodeReplies ==
    {ReplyError,
     ReplyOk([results |-> <<>>]),
     ReplyOk([results |-> <<[latitude |-> 525, longitude |-> 134]>>])}

\* api.open-meteo.com forecast (Root.current); current_units follow the request.
ForecastBodies ==
    {[temperature_2m |-> 187, apparent_temperature |-> 172, wind_speed_10m |-> 123,
      wind_direction_10m |-> 90, weather_code |-> 2],
     [temperature_2m |-> -5, apparent_temperature |-> -39, wind_speed_10m |-> 50,
      wind_direction_10m |-> 338, weather_code |-> 80]}
ForecastReplies == {ReplyError} \cup {ReplyOk(b) : b \in ForecastBodies}

ForecastUnits(temperature_unit, wind_speed_unit) ==
    [temperature_2m |-> IF temperature_unit = "celsius" THEN "°C" ELSE "°F",
     apparent_temperature |-> IF temperature_unit = "celsius" THEN "°C" ELSE "°F",
     wind_speed_10m |-> IF wind_speed_unit = "kmh" THEN "km/h" ELSE "mp/h"]

\* api.openweathermap.org (Root: main, weather, wind)
OwmBodies ==
    {[temp |-> 187, feels_like |-> 172, deg |-> 90, speed |-> 123, weather |-> <<802, 500>>],
     [temp |-> -5, feels_like |-> -39, deg |-> 338, speed |-> 50, weather |-> <<>>]}
OwmReplies == {ReplyError} \cup {ReplyOk(b) : b \in OwmBodies}

\* A request sent: the endpoint, the query parameters and the reply it got.
Request(to, query, reply) == [to |-> to, query |-> query, reply |-> reply]

(***************************************************************************)
(* providers.rs: fetch_weather.  The result is how the call ended (Ok, Err *)
(* or a panic inside the provider) and the requests it sent.               *)
(***************************************************************************)
FetchOk(data, sent) == [outcome |-> [kind |-> "ok", data |-> data], sent |-> sent]
FetchErr(error, sent) == [outcome |-> [kind |-> "err", error |-> error], sent |-> sent]
FetchPanic(msg, sent) == [outcome |-> [kind |-> "panic", msg |-> msg], sent |-> sent]

OpenMeteoWeatherData(cfg, body) ==
    LET units == ForecastUnits(UnitsTemperature(cfg.units), UnitsSpeed(cfg.units)) IN
    [temperature |-> ToString(AsI32(body.temperature_2m)) \o units.temperature_2m,
     feels_like |-> ToString(AsI32(body.apparent_temperature)) \o units.apparent_temperature,
     wind_speed |-> FmtFloat(body.wind_speed_10m) \o units.wind_speed_10m,
     wind_direction |-> degree_to_direction(body.wind_direction_10m),
     condition |-> OpenMeteoCondition(body.weather_code)]

\* OpenMeteo::fetch_weather; `geo` and `fc` are the replies the two requests
\* get if they are sent.
OpenMeteoFetch(cfg, geo, fc) ==
    LET loc == cfg.location.val
        geocoded == loc.kind = "City"
        sent1 == IF geocoded
                 THEN <<Request("geocode",
                                [name |-> loc.city, countryCode |-> loc.country], geo)>>
                 ELSE <<>>
        found == geocoded /\ geo.kind = "ok" /\ Len(geo.body.results) > 0
        latitude == IF found THEN geo.body.results[1].latitude
                    ELSE IF geocoded THEN 0 ELSE loc.lat
        longitude == IF found THEN geo.body.results[1].longitude
                     ELSE IF geocoded THEN 0 ELSE loc.lon
        sent2 == Append(sent1,
                        Request("forecast",
                                [latitude |-> latitude, longitude |-> longitude,
                                 temperature_unit |-> UnitsTemperature(cfg.units),
                                 wind_speed_unit |-> UnitsSpeed(cfg.units)], fc))
    IN  IF geocoded /\ geo.kind = "error" THEN FetchErr("Reqwest", sent1)
        ELSE IF geocoded /\ Len(geo.body.results) = 0
             THEN FetchPanic("No City found, check your config", sent1)
        ELSE IF fc.kind = "error" THEN FetchErr("Reqwest", sent2)
        ELSE FetchOk(OpenMeteoWeatherData(cfg, fc.body), sent2)

OpenWeatherMapWeatherData(cfg, body) ==
    LET temp_unit == IF cfg.units = "imperial" THEN "°F" ELSE "°C" IN
    [temperature |-> ToString(AsI32(body.temp)) \o temp_unit,
     feels_like |-> ToString(AsI32(body.feels_like)) \o temp_unit,
     wind_speed |-> IF cfg.units = "metric"
                    THEN FmtFloat1(body.speed) \o "km/h"
                    ELSE FmtFloat(body.speed) \o "mph",
     wind_direction |-> degree_to_direction(body.deg),
     condition |-> OpenWeatherMapCondition(body.weather)]

\* OpenWeatherMap::fetch_weather; `reply` is what its one request gets.
OpenWeatherMapFetch(cfg, reply) ==
    IF ~cfg.api_key.some THEN FetchPanic("Missing API key", <<>>)
    ELSE LET sent == <<Request("weather",
                               [location |-> cfg.location.val,
                                appid |-> cfg.api_key.val,
                                units |-> UnitsToString(cfg.units)], reply)>>
         IN  IF reply.kind = "error" THEN FetchErr("Reqwest", sent)
             ELSE FetchOk(OpenWeatherMapWeatherData(cfg, reply.body), sent)

(***************************************************************************)
(* State                                                                   *)
(***************************************************************************)
NoFetch == [kind |-> "none"]
NoProbe == [fn |-> "none"]

InitRun ==
    /\ clock = 0
    /\ configFile = Absent
    /\ cacheFile = Absent
    /\ pc = "idle"
    /\ config = None
    /\ loadResult = None
    /\ cache_hit = FALSE
    /\ weather = None
    /\ fetchOutcome = NoFetch
    /\ requests = <<>>
    /\ output = <<>>
    /\ panicAt = ""
    /\ lastSave = None

Init ==
    /\ InitRun
    /\ probe = NoProbe

(***************************************************************************)
(* The environment, between two runs: time passes, the user edits the      *)
(* config file, the cache file is damaged or removed.                      *)
(***************************************************************************)
Tick ==
    /\ pc = "idle"
    /\ clock + TickMinutes <= MaxTime
    /\ clock' = clock + TickMinutes
    /\ UNCHANGED <<configFile, cacheFile, runVars, lastSave, probe>>

EditConfig ==
    /\ pc = "idle"
    /\ \E f \in ConfigFiles : configFile' = f
    /\ UNCHANGED <<clock, cacheFile, runVars, lastSave, probe>>

CorruptCache ==
    /\ pc = "idle"
    /\ \E f \in CorruptCacheFiles : cacheFile' = f
    /\ lastSave' = None
    /\ UNCHANGED <<clock, configFile, runVars, probe>>

DeleteCache ==
    /\ pc = "idle"
    /\ cacheFile # Absent
    /\ cacheFile' = Absent
    /\ lastSave' = None
    /\ UNCHANGED <<clock, configFile, runVars, probe>>

(***************************************************************************)
(* main.rs: one run of the program, step by step.                          *)
(***************************************************************************)
Panic(at) ==
    /\ pc' = "aborted"
    /\ panicAt' = at

\* read_config(): a missing file is announced, then read_to_string's result
\* is unwrapped; a text that does not parse gives the default configuration.
ReadConfig ==
    /\ pc = "idle"
    /\ LET announced == IF configFile.kind = "absent"
                        THEN <<<<"Config file does not exist.">>>> ELSE <<>>
       IN  IF configFile.kind \in {"absent", "bytes"}
           THEN /\ output' = announced
                /\ Panic("read_config")
                /\ UNCHANGED config
           ELSE LET parsed == ParseConfig(configFile.doc) IN
                /\ config' = IF parsed.some THEN parsed.val ELSE DefaultConfig
                /\ output' = IF parsed.some THEN <<>>
                             ELSE <<<<"Failed to parse config file.">>>>
                /\ pc' = "load"
                /\ UNCHANGED panicAt
    /\ UNCHANGED <<clock, configFile, cacheFile, loadResult, cache_hit, weather,
                   fetchOutcome, requests, lastSave, probe>>

\* The load step with its two `.ok()?` written as unwraps.
LoadUnwrap ==
    /\ pc = "load"
    /\ IF cacheFile.kind = "bytes" \/ (cacheFile.kind = "text" /\ ~Deserialize(cacheFile.doc).some)
       THEN /\ Panic("load")
            /\ UNCHANGED <<loadResult, weather>>
       ELSE /\ loadResult' = load(cacheFile, config, clock)
            /\ weather' = loadResult'
            /\ pc' = IF loadResult'.some THEN "print" ELSE "resolve"
            /\ UNCHANGED panicAt
    /\ UNCHANGED <<clock, configFile, cacheFile, config, cache_hit, fetchOutcome,
                   requests, output, lastSave, probe>>

\* `if let Some(data) = caching::load(&config) { data } else { ... }`
Load ==
    /\ pc = "load"
    /\ loadResult' = load(cacheFile, config, clock)
    /\ weather' = loadResult'
    /\ pc' = IF loadResult'.some THEN "print" ELSE "resolve"
    /\ UNCHANGED <<clock, configFile, cacheFile, config, cache_hit, fetchOutcome,
                   requests, output, panicAt, lastSave, probe>>

\* A blocking request takes no time or one tick.
Elapse ==
    \E d \in {0, TickMinutes} :
        /\ clock + d <= MaxTime
        /\ clock' = clock + d

\* config.resolve_location(); cache_hit = true;
ResolveLocation ==
    /\ pc = "resolve"
    /\ IF config.location.some
       THEN /\ cache_hit' = TRUE
            /\ pc' = "fetch"
            /\ UNCHANGED <<clock, config, requests, panicAt>>
       ELSE \E reply \in GeoIpReplies :
            /\ Elapse
            /\ requests' = Append(requests, Request("geoip", <<>>, reply))
            /\ IF reply.kind = "error"
               THEN /\ Panic("resolve_location")
                    /\ UNCHANGED <<config, cache_hit>>
               ELSE /\ config' = [config EXCEPT !.location =
                            Some(Coordinates(reply.body.latitude, reply.body.longitude))]
                    /\ cache_hit' = TRUE
                    /\ pc' = "fetch"
                    /\ UNCHANGED panicAt
    /\ UNCHANGED <<configFile, cacheFile, loadResult, weather, fetchOutcome,
                   output, lastSave, probe>>

\* provider.fetch_weather(&config).unwrap(), through the provider the config
\* selected.
FetchWeather ==
    /\ pc = "fetch"
    /\ \E geo \in GeocodeReplies, fc \in ForecastReplies, ow \in OwmReplies :
        LET res == IF config.provider = "open-meteo"
                   THEN OpenMeteoFetch(config, geo, fc)
                   ELSE OpenWeatherMapFetch(config, ow)
        IN  /\ fetchOutcome' = res.outcome
            /\ requests' = requests \o res.sent
            /\ IF Len(res.sent) = 0 THEN UNCHANGED clock ELSE Elapse
            /\ CASE res.outcome.kind = "ok" ->
                        /\ weather' = Some(res.outcome.data)
                        /\ pc' = "print"
                        /\ UNCHANGED panicAt
                 [] res.outcome.kind = "err" ->
                        /\ Panic("main: fetch_weather(..).unwrap()")
                        /\ UNCHANGED weather
                 [] OTHER ->
                        /\ Panic("fetch_weather")
                        /\ UNCHANGED weather
    /\ UNCHANGED <<configFile, cacheFile, config, loadResult, cache_hit, output,
                   lastSave, probe>>

\* The three println! calls: what they write for `data` at time `now`.
Shown(data, now, cfg) ==
    << <<data.temperature, "feels like", data.feels_like>>,
       <<DisplayCondition[data.condition], "wind speed", data.wind_speed,
         data.wind_direction>>,
       <<(IF cfg.time_format = "24h" THEN "%H:%M " ELSE "%I:%M %p ") \o ToString(now),
         ProviderDisplay(cfg.provider)>> >>

PrintWeather ==
    /\ pc = "print"
    /\ output' = output \o Shown(weather.val, clock, config)
    /\ pc' = "save"
    /\ UNCHANGED <<clock, configFile, cacheFile, config, loadResult, cache_hit,
                   weather, fetchOutcome, requests, panicAt, lastSave, probe>>

\* History of a save: the value handed to caching::save, the time of the
\* call and the configuration the value was fetched under.
Saved(data, now, cfg) ==
    Some([data |-> data, at |-> now, provider |-> cfg.provider,
          location |-> cfg.location.val, units |-> cfg.units])

\* The last step with the guard on the flag dropped: every run saves.
SaveAlways ==
    /\ pc = "save"
    /\ cacheFile' = save(weather.val, clock)
    /\ lastSave' = IF cache_hit THEN Saved(weather.val, clock, config) ELSE lastSave
    /\ pc' = "done"
    /\ UNCHANGED <<clock, configFile, config, loadResult, cache_hit, weather,
                   fetchOutcome, requests, output, panicAt, probe>>

\* The last step with the flag read the other way round: a run that took
\* its data from the cache saves, a run that fetched does not.
SaveInverted ==
    /\ pc = "save"
    /\ IF ~cache_hit
       THEN cacheFile' = save(weather.val, clock)
       ELSE UNCHANGED cacheFile
    /\ UNCHANGED lastSave
    /\ pc' = "done"
    /\ UNCHANGED <<clock, configFile, config, loadResult, cache_hit, weather,
                   fetchOutcome, requests, output, panicAt, probe>>

\* `if cache_hit { caching::save(weather); }`
Save ==
    /\ pc = "save"
    /\ IF cache_hit
       THEN /\ cacheFile' = save(weather.val, clock)
            /\ lastSave' = Saved(weather.val, clock, config)
       ELSE UNCHANGED <<cacheFile, lastSave>>
    /\ pc' = "done"
    /\ UNCHANGED <<clock, configFile, config, loadResult, cache_hit, weather,
                   fetchOutcome, requests, output, panicAt, probe>>

\* The process is gone (it returned from main, or it panicked).
Exit ==
    /\ pc \in {"done", "aborted"}
    /\ pc' = "idle"
    /\ config' = None
    /\ loadResult' = None
    /\ cache_hit' = FALSE
    /\ weather' = None
    /\ fetchOutcome' = NoFetch
    /\ requests' = <<>>
    /\ output' = <<>>
    /\ panicAt' = ""
    /\ UNCHANGED <<clock, configFile, cacheFile, lastSave, probe>>

Next ==
    \/ Tick
    \/ EditConfig
    \/ CorruptCache
    \/ DeleteCache
    \/ ReadConfig
    \/ Load
    \/ ResolveLocation
    \/ FetchWeather
    \/ PrintWeather
    \/ Save
    \/ Exit

Spec == Init /\ [][Next]_vars

(***************************************************************************)
(* The pure classifiers on their own: the input is drawn at the start and  *)
(* one step applies the classifier to it and records the result.           *)
(***************************************************************************)
\* The descriptor list: empty, one descriptor, or two (the first is used).
ProbeInputs ==
    {[fn |-> "OpenMeteoCondition", code |-> code] : code \in Codes}
    \cup {[fn |-> "OpenWeatherMapCondition", ids |-> ids] :
            ids \in {<<>>} \cup {<<id>> : id \in Codes} \cup {<<id, 800>> : id \in Codes}}
    \cup {[fn |-> "degree_to_direction", degree |-> degree] : degree \in I16Min..I16Max}

InitPure ==
    /\ InitRun
    /\ probe \in ProbeInputs

ApplyOpenMeteoCondition ==
    /\ probe.fn = "OpenMeteoCondition"
    /\ "condition" \notin DOMAIN probe
    /\ probe' = [fn |-> probe.fn, code |-> probe.code,
                 condition |-> OpenMeteoCondition(probe.code)]
    /\ UNCHANGED <<clock, configFile, cacheFile, runVars, lastSave>>

ApplyOpenWeatherMapCondition ==
    /\ probe.fn = "OpenWeatherMapCondition"
    /\ "condition" \notin DOMAIN probe
    /\ probe' = [fn |-> probe.fn, ids |-> probe.ids,
                 condition |-> OpenWeatherMapCondition(probe.ids)]
    /\ UNCHANGED <<clock, configFile, cacheFile, runVars, lastSave>>

ApplyDegreeToDirection ==
    /\ probe.fn = "degree_to_direction"
    /\ "direction" \notin DOMAIN probe
    /\ probe' = [fn |-> probe.fn, degree |-> probe.degree,
                 direction |-> degree_to_direction(probe.degree)]
    /\ UNCHANGED <<clock, configFile, cacheFile, runVars, lastSave>>

NextPure ==
    \/ ApplyOpenMeteoCondition
    \/ ApplyOpenWeatherMapCondition
    \/ ApplyDegreeToDirection

SpecPure == InitPure /\ [][NextPure]_vars

(***************************************************************************)
(* Properties.                                                             *)
(***************************************************************************)
\* The snapshot in a file, if the file holds one.
Snapshot(file) ==
    IF file.kind = "text" THEN Deserialize(file.doc) ELSE None

\* The process has just returned from caching::load: the clock and the cache
\* file are those load saw.
AfterLoad == pc = "resolve" \/ (pc = "print" /\ loadResult.some)

\* The run took its data from the cache.
HitRun == pc \in {"print", "save", "done"} /\ loadResult.some

\* C1: while the snapshot written by the latest save is in the file, load
\* returns that save's data, equal in all five fields, if now - timestamp <
\* ttl, and None if now - timestamp >= ttl (equality is a miss).
Thm_C1 ==
    (AfterLoad /\ lastSave.some) =>
        /\ Snapshot(cacheFile) = Some([timestamp |-> lastSave.val.at,
                                       data |-> lastSave.val.data])
        /\ loadResult = IF clock - lastSave.val.at < config.caching_duration
                        THEN Some(lastSave.val.data)
                        ELSE None

\* C1, its case: load is called exactly ttl after the save, and misses.
Wit_C1 ==
    /\ AfterLoad
    /\ lastSave.some
    /\ clock - lastSave.val.at = config.caching_duration
    /\ loadResult = None

\* C2: a run that load answered sends no request, and no step of it changes
\* the cache file; a snapshot's timestamp changes only by the save of a run
\* that fetched, which sets it to the time of that save.
Thm_C2 ==
    /\ [](HitRun => Len(requests) = 0)
    /\ [][HitRun => cacheFile' = cacheFile]_vars
    /\ [][(pc # "idle" /\ cacheFile' # cacheFile /\ Snapshot(cacheFile').some
            /\ (~Snapshot(cacheFile).some
                \/ Snapshot(cacheFile').val.timestamp # Snapshot(cacheFile).val.timestamp))
          => (/\ pc = "save"
              /\ ~loadResult.some
              /\ fetchOutcome.kind = "ok"
              /\ Snapshot(cacheFile').val.timestamp = clock)]_vars

\* C2, its case: a run answered from a snapshot one tick old has ended and
\* the snapshot still carries its old timestamp.
Wit_C2 ==
    /\ pc = "done"
    /\ loadResult.some
    /\ Snapshot(cacheFile).some
    /\ Snapshot(cacheFile).val.timestamp = clock - TickMinutes

CacheUnusable == ~Snapshot(cacheFile).some

\* C4: with the cache file absent, unreadable or malformed, load returns
\* None, the process does not panic in it, and the run goes on to resolve
\* the location and fetch, as after any miss.
Thm_C4 ==
    [][(pc = "load" /\ CacheUnusable)
       => (/\ loadResult' = None
           /\ panicAt' = ""
           /\ pc' = "resolve"
           /\ weather' = None
           /\ cache_hit' = FALSE
           /\ Len(requests') = 0)]_vars

\* C4, its case: a run that found a malformed cache file is about to fetch.
Wit_C4 ==
    /\ pc = "fetch"
    /\ cacheFile = Text(JunkDoc)

\* C5 as stated: with open-weather-map and no API key, fetch ends with the
\* error value MissingCredential, the process does not abort in it, and no
\* request has been sent.
Claim_C5 ==
    (fetchOutcome.kind # "none"
        /\ config.provider = "open-weather-map" /\ ~config.api_key.some)
    => /\ fetchOutcome.kind = "err"
       /\ fetchOutcome.error = "MissingCredential"
       /\ panicAt # "fetch_weather"
       /\ Len(requests) = 0

\* The geocoding request was answered with an empty result list.
GeocodeEmpty ==
    \E i \in 1..Len(requests) :
        /\ requests[i].to = "geocode"
        /\ requests[i].reply.kind = "ok"
        /\ Len(requests[i].reply.body.results) = 0

\* C6 as stated: with open-meteo and a City location, an empty geocoding
\* result makes fetch end with the error value NoLocationFound, the process
\* does not abort in it, and no forecast request is sent.
Claim_C6 ==
    (fetchOutcome.kind # "none" /\ config.provider = "open-meteo" /\ GeocodeEmpty)
    => /\ fetchOutcome.kind = "err"
       /\ fetchOutcome.error = "NoLocationFound"
       /\ panicAt # "fetch_weather"
       /\ \A i \in 1..Len(requests) : requests[i].to # "forecast"

\* The config file does not give a configuration: missing, unreadable, or
\* a text that does not parse as one.
ConfigUnusable ==
    \/ configFile.kind \in {"absent", "bytes"}
    \/ ~ParseConfig(configFile.doc).some

\* C7 as stated: with the config file missing, unreadable or misconfigured,
\* read_config prints a warning and the run continues with the default
\* configuration.
Claim_C7 ==
    ((pc = "load" \/ panicAt = "read_config") /\ ConfigUnusable)
    => /\ pc = "load"
       /\ config = DefaultConfig
       /\ Len(output) > 0

\* The tables of the specification, each row a set of codes and its
\* condition; a code in no row is Unknown.
VendorATable ==
    << <<{0, 1}, Clear>>, <<{2}, PartlyCloudy>>, <<{3}, Overcast>>,
       <<{45, 48}, Foggy>>, <<{51, 53, 55, 56, 57}, Drizzle>>,
       <<{61, 63, 65, 66, 67}, Rainy>>, <<{71, 73, 75}, Snowy>>,
       <<{77}, SnowGrains>>, <<80..82, RainShowers>>, <<{85, 86}, SnowShowers>>,
       <<{95, 96, 99}, Thunderstorms>> >>

VendorBTable ==
    << <<200..232, Thunderstorms>>, <<300..321, Drizzle>>,
       <<(500..504) \cup {511}, Rainy>>, <<520..531, RainShowers>>,
       <<(600..602) \cup (611..616), Snowy>>, <<620..622, SnowShowers>>,
       <<{741}, Foggy>>, <<{800}, Clear>>, <<801..802, PartlyCloudy>>,
       <<803..804, Overcast>> >>

Rows(table, code) == {i \in 1..Len(table) : code \in table[i][1]}

TableCondition(table, code) ==
    IF Rows(table, code) = {} THEN Unknown
    ELSE table[CHOOSE i \in Rows(table, code) : TRUE][2]

\* C8: each classifier gives, for every code, the condition of the one table
\* row the code is in, and Unknown for a code in no row and for an empty
\* open-weather-map descriptor list.
Thm_C8 ==
    /\ (probe.fn = "OpenMeteoCondition" /\ "condition" \in DOMAIN probe) =>
          /\ Cardinality(Rows(VendorATable, probe.code)) <= 1
          /\ probe.condition = TableCondition(VendorATable, probe.code)
    /\ (probe.fn = "OpenWeatherMapCondition" /\ "condition" \in DOMAIN probe) =>
          IF Len(probe.ids) = 0
          THEN probe.condition = Unknown
          ELSE /\ Cardinality(Rows(VendorBTable, probe.ids[1])) <= 1
               /\ probe.condition = TableCondition(VendorBTable, probe.ids[1])

\* C8, its case: a code outside every open-weather-map range was classified.
Wit_C8 ==
    /\ probe.fn = "OpenWeatherMapCondition"
    /\ "condition" \in DOMAIN probe
    /\ probe.ids = <<805>>
    /\ probe.condition = Unknown

\* The sector table of the specification: first degree, last degree, point.
SectorTable ==
    << <<0, 22, "N">>, <<23, 67, "NE">>, <<68, 112, "E">>, <<113, 157, "SE">>,
       <<158, 202, "S">>, <<203, 247, "SW">>, <<248, 292, "W">>,
       <<293, 337, "NW">>, <<338, 359, "N">> >>

CompassPoints == {"N", "NE", "E", "SE", "S", "SW", "W", "NW"}

\* C9: a degree in [0,360) gets the point of the table's sector it lies in;
\* every 16-bit degree gets one of the eight points, N when it is outside
\* [0,360).
Thm_C9 ==
    (probe.fn = "degree_to_direction" /\ "direction" \in DOMAIN probe) =>
        /\ probe.direction \in CompassPoints
        /\ \A i \in 1..Len(SectorTable) :
              (SectorTable[i][1] <= probe.degree /\ probe.degree <= SectorTable[i][2])
              => probe.direction = SectorTable[i][3]
        /\ (probe.degree < 0 \/ probe.degree >= 360) => probe.direction = "N"

\* C9, its case: the first degree of the wrap-around sector was mapped.
Wit_C9 ==
    /\ probe.fn = "degree_to_direction"
    /\ "direction" \in DOMAIN probe
    /\ probe.degree = 338
    /\ probe.direction = "N"

\* C10: with the latest save's snapshot in the file, load hits exactly when
\* now - timestamp < ttl, whatever provider, location and units are now
\* configured; the run then sends no request and prints the saved data under
\* the label of the provider configured now.
Thm_C10 ==
    /\ (AfterLoad /\ lastSave.some) =>
          (loadResult.some <=> clock - lastSave.val.at < config.caching_duration)
    /\ (pc \in {"save", "done"} /\ loadResult.some /\ lastSave.some) =>
          /\ Len(requests) = 0
          /\ fetchOutcome = NoFetch
          /\ Len(output) >= 3
          /\ SubSeq(output, Len(output) - 2, Len(output))
                = Shown(lastSave.val.data, clock, config)

\* C10, its case: a run was answered from a snapshot fetched under another
\* provider, other units and another location than those configured now.
Wit_C10 ==
    /\ pc = "done"
    /\ loadResult.some
    /\ lastSave.some
    /\ lastSave.val.provider # config.provider
    /\ lastSave.val.units # config.units
    /\ config.location.some
    /\ lastSave.val.location # config.location.val
    /\ output[Len(output)][2] = ProviderDisplay(config.provider)

=============================================================================
